---- MODULE Spec2Model ----
(***************************************************************************)
(* Model of users/models.py: SimpleCrossDatabaseField, a field of a Local  *)
(* Record that stores the UUID of a row living in another database         *)
(* (remote_db) and resolves it to the remote model on load, together with  *)
(* CrossField.clean and CrossDatabaseFormField.prepare_value.              *)
(*                                                                         *)
(* Python values are records [t, s, neg]: t is the Python type name, s the *)
(* characters of the value (one-character strings) and neg the sign of an  *)
(* int.  An int is kept as its hexadecimal digits, most significant first, *)
(* without leading zeros, so that the 128-bit width of a UUID is the real  *)
(* one.                                                                    *)
(***************************************************************************)
EXTENDS Integers, Sequences, FiniteSets, TLC

\* ------------------------------------------------------------------ bounds
MaxKey == 1       \* generated primary keys 00..01 .. 00..0<MaxKey>
MaxRows == 1      \* rows the foreign store holds at most

\* --------------------------------------------------------- program constants
HexLen == 32      \* kwargs['max_length'] = 32; width of UUID.hex

\* ------------------------------------------------------------- characters
HexLower == {"0","1","2","3","4","5","6","7","8","9","a","b","c","d","e","f"}

Lower(c) ==
    CASE c = "A" -> "a" [] c = "B" -> "b" [] c = "C" -> "c"
      [] c = "D" -> "d" [] c = "E" -> "e" [] c = "F" -> "f"
      [] OTHER -> c

DigitRank(c) ==
    CASE c = "0" -> 0 [] c = "1" -> 1 [] c = "2" -> 2 [] c = "3" -> 3
      [] c = "4" -> 4 [] c = "5" -> 5 [] c = "6" -> 6 [] c = "7" -> 7
      [] c = "8" -> 8 [] c = "9" -> 9 [] c = "a" -> 10 [] c = "b" -> 11
      [] c = "c" -> 12 [] c = "d" -> 13 [] c = "e" -> 14 [] c = "f" -> 15

DigitChar(i) ==
    <<"0","1","2","3","4","5","6","7","8","9","a","b","c","d","e","f">>[i + 1]

Repeat(c, n) == [i \in 1..n |-> c]

\* ------------------------------------------------------------ Python values
Val(t, s, neg) == [t |-> t, s |-> s, neg |-> neg]

None == Val("NoneType", <<>>, FALSE)
UUID(hex) == Val("UUID", hex, FALSE)
PyStr(s) == Val("str", s, FALSE)
PyInt(digits, neg) == Val("int", digits, neg)
Bytes(s) == Val("bytes", s, FALSE)
Float(s) == Val("float", s, FALSE)
\* an instance of the remote model (UserProxy) whose primary key is UUID(pk)
Entity(pk) == Val("UserProxy", pk, FALSE)
\* the Local Record has no row yet
Unsaved == Val("", <<>>, FALSE)

\* ------------------------------------------------------- outcomes of a call
Return(v) == [kind |-> "return", exc |-> "", code |-> "", val |-> v]
Raise(exc, code, v) == [kind |-> "raise", exc |-> exc, code |-> code, val |-> v]

\* str methods used by uuid.UUID(hex=...)
\* s.replace(sub, ''): no occurrence of 'urn:', 'uuid:' or '-' overlaps
\* another, so the characters of every occurrence go
Replace(s, sub) ==
    LET n == Len(sub)
        covered(i) == \E j \in 1..i :
                         /\ i < j + n
                         /\ j + n - 1 <= Len(s)
                         /\ SubSeq(s, j, j + n - 1) = sub
        kept == SelectSeq([i \in 1..Len(s) |-> <<i, s[i]>>],
                          LAMBDA p : ~covered(p[1]))
    IN  [i \in 1..Len(kept) |-> kept[i][2]]

LStrip(s, cs) ==
    LET first == CHOOSE i \in 1..(Len(s) + 1) :
                     /\ \A j \in 1..(i - 1) : s[j] \in cs
                     /\ i = Len(s) + 1 \/ s[i] \notin cs
    IN  SubSeq(s, first, Len(s))

RStrip(s, cs) ==
    LET lst == CHOOSE i \in 0..Len(s) :
                   /\ \A j \in (i + 1)..Len(s) : s[j] \in cs
                   /\ i = 0 \/ s[i] \notin cs
    IN  SubSeq(s, 1, lst)

Strip(s, cs) == RStrip(LStrip(s, cs), cs)

\* arbitrary-precision non-negative integers as hex digit sequences
Normalized(digits) ==
    LET d == LStrip(digits, {"0"}) IN IF d = <<>> THEN <<"0">> ELSE d

\* a < b for digit sequences of one length
LexLess(a, b) ==
    \E i \in 1..Len(a) :
        /\ DigitRank(a[i]) < DigitRank(b[i])
        /\ \A j \in 1..(i - 1) : a[j] = b[j]

\* a < b for normalized digit sequences
BigLess(a, b) ==
    IF Len(a) # Len(b) THEN Len(a) < Len(b) ELSE LexLess(a, b)

\* 1 << 128
TwoPow128 == <<"1">> \o Repeat("0", HexLen)

\* '%032x' % int
Hex032(digits) == Repeat("0", HexLen - Len(digits)) \o digits

\* UUID.int
UUIDInt(u) == PyInt(Normalized(u.s), FALSE)

\* UUID.hex
UUIDHex(u) == PyStr(u.s)

\* str(UUID): the 8-4-4-4-12 form
UUIDStr(u) ==
    PyStr(SubSeq(u.s, 1, 8) \o <<"-">> \o SubSeq(u.s, 9, 12) \o <<"-">>
        \o SubSeq(u.s, 13, 16) \o <<"-">> \o SubSeq(u.s, 17, 20) \o <<"-">>
        \o SubSeq(u.s, 21, 32))

\* int(hex, 16): surrounding whitespace, an optional sign, an optional 0x
\* prefix, then hex digits with single underscores between them
ValidDigits(s) ==
    /\ s # <<>>
    /\ \A i \in 1..Len(s) : Lower(s[i]) \in HexLower \/ s[i] = "_"
    /\ s[1] # "_" /\ s[Len(s)] # "_"
    /\ \A i \in 1..(Len(s) - 1) : ~(s[i] = "_" /\ s[i + 1] = "_")

Signed(s) == s # <<>> /\ Head(s) \in {"+", "-"}

StripSign(s) == IF Signed(s) THEN Tail(s) ELSE s

StripPrefix(s) ==
    IF Len(s) >= 2 /\ s[1] = "0" /\ s[2] \in {"x", "X"}
    THEN IF Len(s) >= 3 /\ s[3] = "_"
         THEN SubSeq(s, 4, Len(s)) ELSE SubSeq(s, 3, Len(s))
    ELSE s

LowerAll(s) == [i \in 1..Len(s) |-> Lower(s[i])]

IntOfDigits(digits, neg, s) ==
    IF ValidDigits(digits)
    THEN Return(PyInt(Normalized(LowerAll(Replace(digits, <<"_">>))), neg))
    ELSE Raise("ValueError", "", PyStr(s))

IntOfStripped(s1, s) ==
    IntOfDigits(StripPrefix(StripSign(s1)), Signed(s1) /\ Head(s1) = "-", s)

int_(s) == IntOfStripped(Strip(s, {" "}), s)

\* not 0 <= int < 1 << 128
OutOfRange(i) ==
    \/ i.neg /\ i.s # <<"0">>
    \/ ~BigLess(i.s, TwoPow128)

\* hex.replace('urn:', '').replace('uuid:', '').strip('{}').replace('-', '')
CleanHex(hex) ==
    Replace(Strip(Replace(Replace(hex, <<"u","r","n",":">>),
                          <<"u","u","i","d",":">>),
                  {"{", "}"}),
            <<"-">>)

UUIDOfInt(n, value) ==
    IF n.kind = "raise" THEN Raise("ValueError", "", value)
    ELSE IF OutOfRange(n.val) THEN Raise("ValueError", "", value)
    ELSE Return(UUID(Hex032(n.val.s)))

UUIDOfHex(hex, value) ==
    IF Len(hex) # HexLen THEN Raise("ValueError", "", value)
    ELSE UUIDOfInt(int_(hex), value)

\* uuid.UUID(int=value) / uuid.UUID(hex=value), the call of _parse_uuid
UUIDCtor(input_form, value) ==
    IF input_form = "int"
    THEN UUIDOfInt(Return(value), value)
    ELSE IF value.t = "str" THEN UUIDOfHex(CleanHex(value.s), value)
    \* bytes.replace('urn:', ''): a bytes-like object is required
    ELSE IF value.t = "bytes" THEN Raise("TypeError", "", value)
    \* no attribute 'replace'
    ELSE Raise("AttributeError", "", value)

\* ------------------------------------------------------------------- state
VARIABLES
    to,        \* SimpleCrossDatabaseField.to, the dotted path as its components
    null,      \* Field.null of the declaration
    native,    \* connection.features.has_native_uuid_field of the local store
    rows,      \* primary keys (hex) of the rows of the model in remote_db
    storeUp,   \* remote_db accepts connections
    attr,      \* the field's value on the Local Record instance in memory
    stored,    \* the field's column of the Local Record's row
    last       \* the last call: [op, arg, ret, reads]

vars == <<to, null, native, rows, storeUp, attr, stored, last>>

\* what importlib.import_module and getattr find
Modules == {<<"users", "models">>}
ModuleAttrs == {"UserProxy"}

\* except (AttributeError, ValueError): raise ValidationError(code='invalid')
ExceptInvalid(r, value) ==
    IF r.kind = "raise" /\ r.exc \in {"AttributeError", "ValueError"}
    THEN Raise("ValidationError", "invalid", value)
    ELSE r

\* variant of _parse_uuid without the "value is not None" test
_parse_uuid_none_unchecked(value) ==
    IF value.t # "UUID"
    THEN ExceptInvalid(UUIDCtor(IF value.t = "int" THEN "int" ELSE "hex", value),
                       value)
    ELSE Return(value)

\* variant of _parse_uuid that always uses the hex form
_parse_uuid_hex_only(value) ==
    IF value.t # "NoneType" /\ value.t # "UUID"
    THEN ExceptInvalid(UUIDCtor("hex", value), value)
    ELSE Return(value)

\* SimpleCrossDatabaseField._parse_uuid
_parse_uuid(value) ==
    IF value.t # "NoneType" /\ value.t # "UUID"
    THEN ExceptInvalid(UUIDCtor(IF value.t = "int" THEN "int" ELSE "hex", value),
                       value)
    ELSE Return(value)

\* SimpleCrossDatabaseField._return_uuid
_return_uuid(value) == _parse_uuid(value)

\* the conversion of the pk lookup value by the remote model's UUIDField;
\* pk=None is the IS NULL lookup
PkLookupValue(remote_id) ==
    IF remote_id.t \in {"NoneType", "UUID"} THEN Return(remote_id)
    ELSE ExceptInvalid(UUIDCtor(IF remote_id.t = "int" THEN "int" ELSE "hex",
                                remote_id),
                       remote_id)

GetByKey(k, remote_id) ==
    IF k.kind = "raise" THEN k
    ELSE IF ~storeUp THEN Raise("OperationalError", "", remote_id)
    ELSE IF k.val.t = "UUID" /\ k.val.s \in rows THEN Return(Entity(k.val.s))
    ELSE Raise("ObjectDoesNotExist", "", remote_id)

\* model.objects.using(self.remote_db).get(pk=remote_id)
Get(remote_id) == GetByKey(PkLookupValue(remote_id), remote_id)

\* except ObjectDoesNotExist: return None
ExceptDoesNotExist(r) ==
    IF r.kind = "raise" /\ r.exc = "ObjectDoesNotExist" THEN Return(None) ELSE r

\* variant of the except clause that catches Exception
ExceptAny(r) ==
    IF r.kind = "raise" THEN Return(None) ELSE r

\* variant of _parse_field without the try/except, as
\* ReadOnlyCrossDatabaseField._parse_field
_parse_field_no_except(remote_id) ==
    IF SubSeq(to, 1, Len(to) - 1) \notin Modules
    THEN Raise("ImportError", "", remote_id)
    ELSE IF to[Len(to)] \notin ModuleAttrs
    THEN Raise("AttributeError", "", remote_id)
    ELSE Get(remote_id)

\* variant of _parse_field whose except clause catches Exception
_parse_field_except_all(remote_id) ==
    IF SubSeq(to, 1, Len(to) - 1) \notin Modules
    THEN Raise("ImportError", "", remote_id)
    ELSE IF to[Len(to)] \notin ModuleAttrs
    THEN Raise("AttributeError", "", remote_id)
    ELSE ExceptAny(Get(remote_id))

\* SimpleCrossDatabaseField._parse_field; self.to.rsplit(".", 1) is
\* <<SubSeq(to, 1, Len(to) - 1), to[Len(to)]>>
_parse_field(remote_id) ==
    IF SubSeq(to, 1, Len(to) - 1) \notin Modules
    THEN Raise("ImportError", "", remote_id)
    ELSE IF to[Len(to)] \notin ModuleAttrs
    THEN Raise("AttributeError", "", remote_id)
    ELSE ExceptDoesNotExist(Get(remote_id))

\* the queries _parse_field sends to remote_db
Queries(remote_id) ==
    IF /\ SubSeq(to, 1, Len(to) - 1) \in Modules
       /\ to[Len(to)] \in ModuleAttrs
       /\ PkLookupValue(remote_id).kind = "return"
    THEN 1 ELSE 0

\* variant of from_db_value that returns the stored UUID unresolved
from_db_value_unresolved(value) == Return(value)

\* SimpleCrossDatabaseField.from_db_value
from_db_value(value) ==
    IF value = None THEN Return(value) ELSE _parse_field(value)

\* SimpleCrossDatabaseField.get_prep_value
get_prep_value(value) == _return_uuid(value)

\* return value if has_native_uuid_field else value.hex
BackendValue(v) ==
    IF v.kind = "raise" THEN v
    ELSE IF native THEN v
    ELSE Return(UUIDHex(v.val))

\* variant that returns str(value) for value.hex
BackendValueStr(v) ==
    IF v.kind = "raise" THEN v
    ELSE IF native THEN v
    ELSE Return(UUIDStr(v.val))

\* variant of get_db_prep_value that returns str(value) for value.hex
get_db_prep_value_str(value) ==
    IF value = None THEN Return(None)
    ELSE BackendValueStr(IF value.t # "UUID" THEN _return_uuid(value)
                         ELSE Return(value))

\* variant of get_db_prep_value that hands a non-UUID to the backend as it is
get_db_prep_value_unconverted(value) ==
    IF value = None THEN Return(None)
    ELSE IF native THEN Return(value)
    ELSE IF value.t = "UUID" THEN Return(UUIDHex(value))
    ELSE Raise("AttributeError", "", value)

\* SimpleCrossDatabaseField.get_db_prep_value
get_db_prep_value(value) ==
    IF value = None THEN Return(None)
    ELSE BackendValue(IF value.t # "UUID" THEN _return_uuid(value)
                      ELSE Return(value))

\* self._parse_field(u) for the u that _parse_uuid returned
ParseFieldOf(u) ==
    IF u.kind = "raise" THEN u ELSE _parse_field(u.val)

QueriesOf(u) ==
    IF u.kind = "raise" THEN 0 ELSE Queries(u.val)

\* SimpleCrossDatabaseField.to_python
to_python(value) == ParseFieldOf(_parse_uuid(value))

\* self.validate(value, model_instance): Field.validate with blank=False
Validate(v) ==
    IF v.kind = "raise" THEN v
    ELSE IF v.val = None
    THEN Raise("ValidationError", IF null THEN "blank" ELSE "null", v.val)
    ELSE v

\* CrossField.clean
clean(value) == Validate(_return_uuid(value))

\* CrossDatabaseFormField.prepare_value
prepare_value(value) ==
    IF value.t = "UUID" THEN Return(UUIDStr(value))
    ELSE IF value.t = "UserProxy" THEN Return(UUID(value.s))
    ELSE Raise("AttributeError", "", value)

\* the value the backend's converter hands to from_db_value for a column
\* whose internal type is "UUIDField": a uuid.UUID also where the column
\* holds the 32 characters
get_internal_type(value) ==
    IF value.t = "str" THEN UUID(value.s) ELSE value

\* ------------------------------------------------------------------ inputs
H1 == <<"0","1","2","3","4","5","6","7","8","9","a","b","c","d","e","f",
        "0","1","2","3","4","5","6","7","8","9","a","b","c","d","e","f">>
H1Upper == <<"0","1","2","3","4","5","6","7","8","9","A","B","C","D","E","F",
             "0","1","2","3","4","5","6","7","8","9","A","B","C","D","E","F">>
HF == Repeat("f", HexLen)
KeyOfIndex(i) == Repeat("0", HexLen - 1) \o <<DigitChar(i)>>

Keys == {H1} \cup {KeyOfIndex(i) : i \in 1..MaxKey}

Paths == {<<"users", "models", "UserProxy">>,
          <<"users", "model", "UserProxy">>,
          <<"users", "models", "Userproxy">>}

\* the values the pure functions are applied to
Inputs ==
    {None}
    \cup {UUID(k) : k \in Keys} \cup {Entity(k) : k \in Keys}
    \cup {PyStr(H1), PyStr(H1Upper), UUIDStr(UUID(H1)),
          PyStr(<<"u","r","n",":","u","u","i","d",":">> \o H1),
          PyStr(<<"n","o","t","-","a","-","u","u","i","d">>),
          PyStr(<<"+">> \o Tail(H1)), PyStr(Tail(H1)),
          PyStr(Repeat("g", HexLen))}
    \cup {PyInt(Normalized(H1), FALSE), PyInt(HF, FALSE),
          PyInt(TwoPow128, FALSE), PyInt(<<"1">>, TRUE), PyInt(<<"0">>, FALSE)}
    \cup {Bytes(H1), Float(<<"1", ".", "5">>)}

\* the values assigned to the field of a Local Record that is cleaned,
\* saved and loaded; a resolved entity comes from a load
Assigned ==
    {None}
    \cup {UUID(k) : k \in Keys}
    \cup {PyStr(H1), PyInt(Normalized(H1), FALSE),
          PyStr(<<"n","o","t","-","a","-","u","u","i","d">>)}

Call(op, arg, ret, reads) == [op |-> op, arg |-> arg, ret |-> ret, reads |-> reads]

\* ----------------------------------------------------------------- actions
Init ==
    /\ to \in Paths
    /\ null \in BOOLEAN
    /\ native \in BOOLEAN
    /\ rows = {}
    /\ storeUp = TRUE
    /\ attr = None
    /\ stored = Unsaved
    /\ last = Call("__init__", None, Return(None), 0)

\* instance.user_proxy = v
Assign(v) ==
    /\ attr' = v
    /\ last' = Call("assign", v, Return(None), 0)
    /\ UNCHANGED <<to, null, native, rows, storeUp, stored>>

ParseUuid ==
    /\ last' = Call("_parse_uuid", attr, _parse_uuid(attr), 0)
    /\ UNCHANGED <<to, null, native, rows, storeUp, attr, stored>>

GetPrepValue ==
    /\ last' = Call("get_prep_value", attr, get_prep_value(attr), 0)
    /\ UNCHANGED <<to, null, native, rows, storeUp, attr, stored>>

GetDbPrepValue ==
    /\ last' = Call("get_db_prep_value", attr, get_db_prep_value(attr), 0)
    /\ UNCHANGED <<to, null, native, rows, storeUp, attr, stored>>

ParseField ==
    /\ last' = Call("_parse_field", attr, _parse_field(attr), Queries(attr))
    /\ UNCHANGED <<to, null, native, rows, storeUp, attr, stored>>

ToPython ==
    /\ last' = Call("to_python", attr, to_python(attr),
                    QueriesOf(_parse_uuid(attr)))
    /\ UNCHANGED <<to, null, native, rows, storeUp, attr, stored>>

PrepareValue ==
    /\ last' = Call("prepare_value", attr, prepare_value(attr), 0)
    /\ UNCHANGED <<to, null, native, rows, storeUp, attr, stored>>

\* instance.clean_fields(): the cleaned value replaces the attribute
Clean ==
    \E r \in {clean(attr)} :
        /\ last' = Call("clean", attr, r, 0)
        /\ attr' = IF r.kind = "return" THEN r.val ELSE attr
        /\ UNCHANGED <<to, null, native, rows, storeUp, stored>>

\* instance.save(): the column takes what get_db_prep_value returns; a NULL
\* is refused by a column declared null=False
Save ==
    \E r \in {get_db_prep_value(attr)} :
        /\ IF r.kind = "raise"
           THEN last' = Call("save", attr, r, 0) /\ stored' = stored
           ELSE IF r.val = None /\ ~null
           THEN /\ last' = Call("save", attr, Raise("IntegrityError", "", None), 0)
                /\ stored' = stored
           ELSE last' = Call("save", attr, r, 0) /\ stored' = r.val
        /\ UNCHANGED <<to, null, native, rows, storeUp, attr>>

\* UserLocalProxy.objects.first().user_proxy: the attribute of the instance
\* built from the row is what from_db_value returns
Load ==
    /\ stored # Unsaved
    /\ \E r \in {from_db_value(get_internal_type(stored))} :
        /\ last' = Call("from_db_value", stored, r,
                        IF stored = None THEN 0 ELSE Queries(stored))
        /\ attr' = IF r.kind = "return" THEN r.val ELSE attr
    /\ UNCHANGED <<to, null, native, rows, storeUp, stored>>

\* the foreign store changes on its own
InsertRow(k) ==
    /\ k \notin rows
    /\ Cardinality(rows) < MaxRows
    /\ rows' = rows \cup {k}
    /\ last' = Call("insert", UUID(k), Return(None), 0)
    /\ UNCHANGED <<to, null, native, storeUp, attr, stored>>

DeleteRow(k) ==
    /\ k \in rows
    /\ rows' = rows \ {k}
    /\ last' = Call("delete", UUID(k), Return(None), 0)
    /\ UNCHANGED <<to, null, native, storeUp, attr, stored>>

Outage ==
    /\ storeUp' = ~storeUp
    /\ last' = Call("outage", None, Return(None), 0)
    /\ UNCHANGED <<to, null, native, rows, attr, stored>>

Next ==
    \/ \E v \in Assigned : Assign(v)
    \/ ParseUuid
    \/ GetPrepValue
    \/ GetDbPrepValue
    \/ ParseField
    \/ ToPython
    \/ PrepareValue
    \/ Clean
    \/ Save
    \/ Load
    \/ \E k \in Keys : InsertRow(k)
    \/ \E k \in Keys : DeleteRow(k)
    \/ Outage

Spec == Init /\ [][Next]_vars

\* the functions that read neither store, applied to every input, on the
\* field as UserLocalProxy declares it
PureInit ==
    /\ to = <<"users", "models", "UserProxy">>
    /\ null = FALSE
    /\ native \in BOOLEAN
    /\ rows = {}
    /\ storeUp = TRUE
    /\ attr \in Inputs
    /\ stored = Unsaved
    /\ last = Call("__init__", None, Return(None), 0)

PureNext ==
    \/ \E v \in Inputs : Assign(v)
    \/ ParseUuid
    \/ GetPrepValue
    \/ GetDbPrepValue
    \/ PrepareValue

SpecPure == PureInit /\ [][PureNext]_vars

\* ------------------------------------------------------------- properties
\* the to path names an importable module and a model of it
Resolvable ==
    /\ SubSeq(to, 1, Len(to) - 1) \in Modules
    /\ to[Len(to)] \in ModuleAttrs

IsHex32(s) == Len(s) = HexLen /\ \A i \in 1..Len(s) : s[i] \in HexLower

\* the Reference a stored value stands for
ReferenceOf(value) == UUID(value.s)

\* 0 <= i < 2^128: at most 32 hexadecimal digits
InRange(i) == ~i.neg /\ Len(i.s) <= HexLen

\* what normalize admits: None, a UUID, an in-range int, a string that
\* uuid.UUID reads as hex
Admissible(v) ==
    \/ v.t \in {"NoneType", "UUID"}
    \/ v.t = "int" /\ InRange(v)
    \/ v.t = "str" /\ UUIDCtor("hex", v).kind = "return"

\* C1 as stated: decoding what encode stored gives back the Reference that
\* was normalized and encoded, decode(encode(normalize(h))) = normalize(h).
C1_RoundTripReference ==
    (last.op = "from_db_value" /\ last.arg # None)
        => last.ret = Return(ReferenceOf(last.arg))

\* C1 amended: decoding what encode stored resolves the Reference: it
\* returns the foreign row whose primary key is the Reference when the
\* store holds one and None when it holds none, never the Reference.
C1_RoundTripResolves ==
    (last.op = "from_db_value" /\ last.arg # None)
        => /\ (native => last.arg.t = "UUID")
           /\ (~native => last.arg.t = "str" /\ IsHex32(last.arg.s))
           /\ (last.ret.kind = "return" =>
                 last.ret.val = IF last.arg.s \in rows
                                THEN Entity(ReferenceOf(last.arg).s)
                                ELSE None)
           /\ (Resolvable /\ storeUp => last.ret.kind = "return")

C1_Witness ==
    /\ last.op = "from_db_value"
    /\ ~native
    /\ last.arg = PyStr(H1)
    /\ last.ret = Return(Entity(H1))

\* C2: _parse_uuid answers every input that is not None, a UUID, an
\* in-range int or a well-formed hex string with ValidationError, code
\* 'invalid', params value = the input; no other exception escapes.
C2_RejectsWithValidationError ==
    (last.op = "_parse_uuid" /\ ~Admissible(last.arg))
        => last.ret = Raise("ValidationError", "invalid", last.arg)

\* C3: _parse_field never lets the not-found signal out: with the lookup
\* performed, a Reference without a row gives None and a Reference with a
\* row gives that row.
C3_AbsentOnMissingRow ==
    /\ last.op \in {"_parse_field", "from_db_value", "to_python"}
          => ~(last.ret.kind = "raise" /\ last.ret.exc = "ObjectDoesNotExist")
    /\ (last.op = "_parse_field" /\ last.arg.t = "UUID" /\ Resolvable /\ storeUp)
          => last.ret = Return(IF last.arg.s \in rows
                               THEN Entity(last.arg.s) ELSE None)

C3_Witness ==
    /\ last.op = "_parse_field"
    /\ last.arg = UUID(H1)
    /\ rows # {} /\ H1 \notin rows
    /\ last.ret = Return(None)

\* C4: a failure other than not-found (store unreachable, to path that does
\* not resolve, lookup value of the wrong type) is raised by _parse_field,
\* never returned as None; None is returned only when the lookup ran and
\* matched no row.
C4_FailuresPropagate ==
    last.op = "_parse_field" =>
        \E failure \in {\/ ~Resolvable
                         \/ PkLookupValue(last.arg).kind = "raise"
                         \/ ~storeUp} :
            /\ failure => /\ last.ret.kind = "raise"
                          /\ last.ret.exc \in {"ImportError", "AttributeError",
                                "ValidationError", "TypeError", "OperationalError"}
            /\ last.ret = Return(None)
                  => /\ ~failure
                     /\ last.reads = 1
                     /\ last.arg.t = "UUID" => last.arg.s \notin rows

C4_Witness ==
    /\ last.op = "_parse_field"
    /\ last.arg = UUID(H1)
    /\ ~storeUp /\ H1 \notin rows
    /\ last.ret.kind = "raise" /\ last.ret.exc = "OperationalError"

\* C5: None goes through normalize, encode and decode as None, without an
\* error and without a query to the foreign store.
C5_NullPropagates ==
    (last.op \in {"_parse_uuid", "get_prep_value", "get_db_prep_value",
                  "from_db_value"} /\ last.arg = None)
        => last.ret = Return(None) /\ last.reads = 0

C5_Witness ==
    /\ last.op = "from_db_value"
    /\ last.arg = None /\ stored = None
    /\ rows # {}
    /\ last.ret = Return(None)

\* C6: normalize accepts a resolved entity and gives the UUID of its primary
\* key, so clean, get_prep_value and get_db_prep_value take the entity that
\* decode returned without a ValidationError.
C6_EntityNormalizes ==
    /\ (last.op \in {"_parse_uuid", "get_prep_value", "clean"}
            /\ last.arg.t = "UserProxy")
          => last.ret = Return(UUID(last.arg.s))
    /\ (last.op \in {"get_db_prep_value", "save"} /\ last.arg.t = "UserProxy")
          => last.ret.kind = "return"

\* C7: normalize of an int i with 0 <= i < 2^128 gives the UUID whose int
\* is i; an int outside the range is not accepted.
C7_IntRange ==
    (last.op = "_parse_uuid" /\ last.arg.t = "int")
        => IF InRange(last.arg)
           THEN /\ last.ret.kind = "return"
                /\ last.ret.val.t = "UUID"
                /\ Len(last.ret.val.s) = HexLen
                /\ UUIDInt(last.ret.val) = last.arg
           ELSE last.ret.kind = "raise"

C7_Witness ==
    /\ last.op = "_parse_uuid"
    /\ last.arg = PyInt(HF, FALSE)
    /\ last.ret = Return(UUID(HF))

\* C8: encode of an admissible value with Reference R returns R itself on a
\* backend with native UUIDs and the 32 lowercase hex characters of R,
\* without dashes, on any other; it fails for no Reference.
C8_EncodeForms ==
    (last.op = "get_db_prep_value" /\ last.arg # None /\ Admissible(last.arg))
        => /\ last.ret.kind = "return"
           /\ IsHex32(last.ret.val.s)
           /\ last.ret.val.t = IF native THEN "UUID" ELSE "str"
           /\ ReferenceOf(last.ret.val) = _parse_uuid(last.arg).val

C8_Witness ==
    /\ last.op = "get_db_prep_value"
    /\ ~native
    /\ last.arg = PyStr(H1Upper)
    /\ last.ret = Return(PyStr(H1))

\* C9: prepare_value gives the identifier as a string for a Reference and
\* for a resolved entity alike (the canonical string of the primary key),
\* and sends no query to the foreign store.
C9_DisplaysIdentifierString ==
    (last.op = "prepare_value" /\ last.arg.t \in {"UUID", "UserProxy"})
        => /\ last.ret = Return(UUIDStr(UUID(last.arg.s)))
           /\ last.reads = 0

\* the column of the Local Record holds NULL or a Reference in the form of
\* the backend, never a resolved entity
StoredIsReference ==
    \/ stored \in {Unsaved, None}
    \/ /\ stored.t = IF native THEN "UUID" ELSE "str"
       /\ IsHex32(stored.s)

\* C10: whatever is assigned, cleaned, saved and loaded, and whatever rows
\* the foreign store gains or loses, the column holds NULL or a Reference in
\* storage form, and a change of the foreign store leaves it as it is.
C10_StoredOnlyReference ==
    /\ []StoredIsReference
    /\ [][rows' # rows => stored' = stored]_vars

C10_Witness ==
    /\ last.op = "delete"
    /\ stored \notin {Unsaved, None}
    /\ last.arg = ReferenceOf(stored)
    /\ attr = Entity(stored.s)

====
